---------------------------- MODULE Spec2Model ----------------------------
(***************************************************************************)
(* A model of the S2C network measurement tool: the client's               *)
(* NetworkTester (src/client.py) and the server's echo handler             *)
(* (src/server.py).                                                        *)
(*                                                                         *)
(* Threads: the Coordinator (run), the Sender (send_packets), the Sampler  *)
(* (measure_metrics), the Receiver (receive_packets) and the server's      *)
(* handle_client.  The TCP connection is two bounded byte FIFOs: c2s       *)
(* (client to server) and s2c (the echo).  A blocking write waits for      *)
(* room, a recv(n) returns between 1 and n of the bytes queued.            *)
(*                                                                         *)
(* Spec is the program as run() starts it: the Receiver thread is never    *)
(* started, so nothing reads the echo.  FairSpec adds that every thread is *)
(* scheduled, TimedSpec that time passes only in sleeps and blocking       *)
(* calls.  SamplerSpec runs the Sampler and the Receiver on maps the       *)
(* Sender and the Receiver can have filled; WorkersSpec takes both.        *)
(***************************************************************************)
EXTENDS Integers, Sequences, FiniteSets, TLC

----------------------------------------------------------------------------
(* Bounds of the model and the run's configuration *)

\* self.packet_size: payload bytes per frame
PacketSize == 2
\* self.duration, in clock units
Duration == 1
\* self.measurement_interval, in clock units
Interval == 1
\* struct '!II': 4-byte sequence number, 4-byte checksum
HeaderSize == 8
\* the clock stops advancing here
MaxTime == 2
\* the Sender starts at most this many frames
MaxFrames == 3
\* bytes the client-to-server path buffers
C2SCap == 8
\* bytes the server-to-client path buffers
S2CCap == 10
\* values a payload byte is drawn from (os.urandom)
PayloadBytes == {0, 1}

FrameSize == HeaderSize + PacketSize

----------------------------------------------------------------------------
(* Packet codec *)

Min(a, b) == IF a < b THEN a ELSE b

\* struct.pack('!I', n): 4 bytes, big-endian
Pack32(n) ==
    << (n \div 16777216) % 256, (n \div 65536) % 256, (n \div 256) % 256, n % 256 >>

\* struct.unpack('!I', b)[0]
Unpack32(b) == b[1] * 16777216 + b[2] * 65536 + b[3] * 256 + b[4]

\* A stand-in for the MD5 digest: a deterministic hash of the byte string,
\* kept below 128 so that every byte on the wire, read back as the first byte
\* of a 32-bit field, stays within the checker's integers (the claims need
\* only a function of the payload that tells the model's payloads apart).
RECURSIVE Digest(_, _)
Digest(bytes, h) ==
    IF bytes = <<>> THEN h
    ELSE Digest(Tail(bytes), (h * 31 + Head(bytes) + 1) % 128)

\* struct.unpack('!I', hashlib.md5(data).digest()[:4])[0]
Checksum(bytes) == Digest(bytes, 7)

\* header = struct.pack('!II', seq, checksum); packet = header + data
Encode(seq, payload) == Pack32(seq) \o Pack32(Checksum(payload)) \o payload

\* seq_num, checksum = struct.unpack('!II', header)
HeaderSeq(header) == Unpack32(SubSeq(header, 1, 4))
HeaderChecksum(header) == Unpack32(SubSeq(header, 5, 8))

\* os.urandom(packet_size): the model draws from the payloads that repeat one byte
Payloads == { [i \in 1..PacketSize |-> b] : b \in PayloadBytes }

Take(s, k) == SubSeq(s, 1, k)
Drop(s, k) == SubSeq(s, k + 1, Len(s))

----------------------------------------------------------------------------
(* Insertion-ordered dictionaries (Python dict): sequences of <<key, value>> *)

DictKeys(d) == { d[i][1] : i \in 1..Len(d) }
DictHas(d, k) == \E i \in 1..Len(d) : d[i][1] = k
DictGet(d, k) == d[CHOOSE i \in 1..Len(d) : d[i][1] = k][2]
\* d[k] = v: a new key is appended, an existing key keeps its place
DictSet(d, k, v) ==
    IF DictHas(d, k)
    THEN [i \in 1..Len(d) |-> IF d[i][1] = k THEN <<k, v>> ELSE d[i]]
    ELSE Append(d, <<k, v>>)

----------------------------------------------------------------------------
VARIABLES
    now,               \* time.time(), in clock units since construction
    serverUp,          \* whether a server listens on server_port
    stop_event,        \* self.stop_event
    sequence_number,   \* self.sequence_number
    sent_packets,      \* self.sent_packets: seq -> send time
    received_packets,  \* self.received_packets: seq -> record
    metrics,           \* self.metrics
    lock,              \* self.lock: the thread holding it, or "free"
    csvfile,           \* the output file: <<>> until written, then <<rows>>
    pcMain, pcSender, pcSampler, pcReceiver, pcServer,
    current_time,      \* send_packets: current_time
    data,              \* send_packets: data
    sendOff,           \* bytes of the current packet sendall has handed over
    wake,              \* measure_metrics: end of the current sleep
    elapsed_time,      \* measure_metrics: elapsed_time
    c2s, s2c,          \* bytes queued client->server and server->client
    clientClosed,      \* the Sender's socket is closed
    serverClosed,      \* the handler's connection is closed
    srvHeader, srvData, srvOff,   \* handle_client: header, data, bytes echoed
    rxHeader, rxData, rxTime,     \* receive_packets: header, data, recv_time
    interrupted,       \* a KeyboardInterrupt was delivered to run()
    saveCalls,         \* history: calls of save_metrics
    wireSeqs,          \* history: sequence numbers whose frame sendall began to write
    sentWrites,        \* history: assignments made to sent_packets
    afterStop,         \* history: samples appended and frames recorded with the stop flag set
    runTimes,          \* history: when metrics_thread was started and when the stop
                       \* flag was first set (-1: not yet)
    netLog             \* history of the connection: the bytes the Sender wrote, whether
                       \* a sendall raised, the bytes handle_client read, the headers
                       \* it unpacked and the bytes it wrote back

shared == << stop_event, sequence_number, sent_packets, received_packets, metrics, lock >>
mainVars == << pcMain, csvfile, interrupted, saveCalls >>
senderVars == << pcSender, current_time, data, sendOff, wireSeqs, sentWrites >>
samplerVars == << pcSampler, wake, elapsed_time >>
receiverVars == << pcReceiver, rxHeader, rxData, rxTime >>
serverVars == << pcServer, srvHeader, srvData, srvOff >>
netVars == << c2s, s2c, clientClosed, serverClosed >>

vars == << now, serverUp, shared, mainVars, senderVars, samplerVars, receiverVars,
           serverVars, netVars, afterStop, runTimes, netLog >>

\* self.start_time = time.time(): the clock starts at construction
start_time == 0

\* self.stop_event.set() at time t: the first call is the one remembered
StopSet(times, t) == IF times.stopped = -1 THEN [times EXCEPT !.stopped = t] ELSE times

\* NetworkTester.__init__, and a server that listens or not
Init ==
    /\ now = 0
    /\ serverUp \in BOOLEAN
    /\ stop_event = FALSE
    /\ sequence_number = 0
    /\ sent_packets = <<>>
    /\ received_packets = <<>>
    /\ metrics = <<>>
    /\ lock = "free"
    /\ csvfile = <<>>
    /\ pcMain = "Idle"
    /\ pcSender = "idle"
    /\ pcSampler = "idle"
    /\ pcReceiver = "unstarted"
    /\ pcServer = "accept"
    /\ current_time = 0
    /\ data = <<>>
    /\ sendOff = 0
    /\ wake = 0
    /\ elapsed_time = 0
    /\ c2s = <<>>
    /\ s2c = <<>>
    /\ clientClosed = FALSE
    /\ serverClosed = FALSE
    /\ srvHeader = <<>>
    /\ srvData = <<>>
    /\ srvOff = 0
    /\ rxHeader = <<>>
    /\ rxData = <<>>
    /\ rxTime = 0
    /\ interrupted = FALSE
    /\ saveCalls = 0
    /\ wireSeqs = {}
    /\ sentWrites = <<>>
    /\ afterStop = [samples |-> 0, frames |-> 0]
    /\ runTimes = [started |-> -1, stopped |-> -1]
    /\ netLog = [sent |-> <<>>, failed |-> FALSE, read |-> <<>>, parsed |-> <<>>,
                 written |-> <<>>]

----------------------------------------------------------------------------
(* The clock *)

Tick ==
    /\ now < MaxTime
    /\ now' = now + 1
    /\ UNCHANGED << serverUp, shared, mainVars, senderVars, samplerVars, receiverVars,
                    serverVars, netVars, afterStop, runTimes, netLog >>

----------------------------------------------------------------------------
(* Sender: NetworkTester.send_packets *)

\* sock.connect succeeds: the server's accept returns and a handler starts
SenderConnect ==
    /\ pcSender = "connect"
    /\ serverUp
    /\ pcServer = "accept"
    /\ pcSender' = "loop"
    /\ pcServer' = "recv_header"
    /\ UNCHANGED << now, serverUp, shared, mainVars, current_time, data, sendOff,
                    wireSeqs, sentWrites, samplerVars, receiverVars, srvHeader, srvData,
                    srvOff, netVars, afterStop, runTimes, netLog >>

\* sock.connect raises (connection refused): the outer except sets the stop flag
SenderConnectError ==
    /\ pcSender = "connect"
    /\ ~serverUp
    /\ stop_event' = TRUE
    /\ runTimes' = StopSet(runTimes, now)
    /\ pcSender' = "done"
    /\ UNCHANGED << now, serverUp, sequence_number, sent_packets, received_packets,
                    metrics, lock, mainVars, current_time, data, sendOff, wireSeqs,
                    sentWrites, samplerVars, receiverVars, serverVars, netVars, afterStop, netLog >>

\* while not self.stop_event.is_set(): ... if elapsed >= duration: break
SenderLoopExits == stop_event \/ now - start_time >= Duration

\* the loop ends: the stop flag is set or the duration has elapsed
SenderExitLoop ==
    /\ pcSender = "loop"
    /\ SenderLoopExits
    /\ pcSender' = "close"
    /\ UNCHANGED << now, serverUp, shared, mainVars, current_time, data, sendOff,
                    wireSeqs, sentWrites, samplerVars, receiverVars, serverVars, netVars,
                    afterStop, runTimes, netLog >>

\* one more iteration: read the clock, draw the payload, build the packet
SenderPrepare ==
    /\ pcSender = "loop"
    /\ ~SenderLoopExits
    /\ sequence_number < MaxFrames
    /\ current_time' = now
    /\ \E d \in Payloads : data' = d
    /\ pcSender' = "lock"
    /\ UNCHANGED << now, serverUp, shared, mainVars, sendOff, wireSeqs, sentWrites,
                    samplerVars, receiverVars, serverVars, netVars, afterStop, runTimes, netLog >>

\* with self.lock: (enter)
SenderAcquire ==
    /\ pcSender = "lock"
    /\ lock = "free"
    /\ lock' = "sender"
    /\ pcSender' = "insert"
    /\ UNCHANGED << now, serverUp, stop_event, sequence_number, sent_packets,
                    received_packets, metrics, mainVars, current_time, data, sendOff,
                    wireSeqs, sentWrites, samplerVars, receiverVars, serverVars, netVars,
                    afterStop, runTimes, netLog >>

\* a faulty variant: the SentRecord is not inserted before the write
SenderRecord_NoInsert ==
    /\ pcSender = "insert"
    /\ lock' = "free"
    /\ sendOff' = 0
    /\ pcSender' = "sendall"
    /\ UNCHANGED << now, serverUp, stop_event, sequence_number, sent_packets,
                    received_packets, metrics, mainVars, current_time, data, wireSeqs,
                    sentWrites, samplerVars, receiverVars, serverVars, netVars, afterStop, runTimes, netLog >>

\* self.sent_packets[self.sequence_number] = current_time, and the lock is released
SenderRecord ==
    /\ pcSender = "insert"
    /\ sent_packets' = DictSet(sent_packets, sequence_number, current_time)
    /\ sentWrites' = Append(sentWrites, sequence_number)
    /\ afterStop' = IF stop_event THEN [afterStop EXCEPT !.frames = @ + 1] ELSE afterStop
    /\ lock' = "free"
    /\ sendOff' = 0
    /\ pcSender' = "sendall"
    /\ UNCHANGED << now, serverUp, stop_event, sequence_number, received_packets, metrics,
                    mainVars, current_time, data, wireSeqs, samplerVars, receiverVars,
                    serverVars, netVars, runTimes, netLog >>

\* a faulty variant: the sequence number is not advanced after a completed send
SenderSendall_NoIncrement ==
    /\ pcSender = "sendall"
    /\ ~serverClosed
    /\ Len(c2s) < C2SCap
    /\ LET packet == Encode(sequence_number, data)
           k == Min(C2SCap - Len(c2s), FrameSize - sendOff)
       IN  /\ c2s' = c2s \o SubSeq(packet, sendOff + 1, sendOff + k)
           /\ wireSeqs' = wireSeqs \cup {sequence_number}
           /\ netLog' = [netLog EXCEPT !.sent = @ \o SubSeq(packet, sendOff + 1, sendOff + k)]
           /\ IF sendOff + k = FrameSize
              THEN /\ sendOff' = 0
                   /\ data' = <<>>
                   /\ current_time' = 0
                   /\ pcSender' = "loop"
              ELSE /\ sendOff' = sendOff + k
                   /\ UNCHANGED << pcSender, data, current_time >>
    /\ UNCHANGED << now, serverUp, stop_event, sequence_number, sent_packets,
                    received_packets, metrics, lock, mainVars, sentWrites, samplerVars,
                    receiverVars, serverVars, s2c, clientClosed, serverClosed, afterStop,
                    runTimes >>

\* sock.sendall(packet): hands over what the path has room for and blocks for the
\* rest; when the whole packet is written, self.sequence_number += 1
SenderSendall ==
    /\ pcSender = "sendall"
    /\ ~serverClosed
    /\ Len(c2s) < C2SCap
    /\ LET packet == Encode(sequence_number, data)
           k == Min(C2SCap - Len(c2s), FrameSize - sendOff)
       IN  /\ c2s' = c2s \o SubSeq(packet, sendOff + 1, sendOff + k)
           /\ wireSeqs' = wireSeqs \cup {sequence_number}
           /\ netLog' = [netLog EXCEPT !.sent = @ \o SubSeq(packet, sendOff + 1, sendOff + k)]
           /\ IF sendOff + k = FrameSize
              THEN /\ sequence_number' = sequence_number + 1
                   /\ sendOff' = 0
                   /\ data' = <<>>
                   /\ current_time' = 0
                   /\ pcSender' = "loop"
              ELSE /\ sendOff' = sendOff + k
                   /\ UNCHANGED << sequence_number, pcSender, data, current_time >>
    /\ UNCHANGED << now, serverUp, stop_event, sent_packets, received_packets, metrics,
                    lock, mainVars, sentWrites, samplerVars,
                    receiverVars, serverVars, s2c, clientClosed, serverClosed, afterStop,
                    runTimes >>

\* a faulty variant: after a failed send the loop goes on to the next iteration
SenderSendError_Retry ==
    /\ pcSender = "sendall"
    /\ serverClosed
    /\ pcSender' = "loop"
    /\ netLog' = [netLog EXCEPT !.failed = TRUE]
    /\ UNCHANGED << now, serverUp, shared, mainVars, current_time, data, sendOff,
                    wireSeqs, sentWrites, samplerVars, receiverVars, serverVars, netVars,
                    afterStop, runTimes >>

\* sock.sendall raises (the peer closed the connection): print, break
SenderSendError ==
    /\ pcSender = "sendall"
    /\ serverClosed
    /\ pcSender' = "close"
    /\ netLog' = [netLog EXCEPT !.failed = TRUE]
    /\ UNCHANGED << now, serverUp, shared, mainVars, current_time, data, sendOff,
                    wireSeqs, sentWrites, samplerVars, receiverVars, serverVars, netVars,
                    afterStop, runTimes >>

\* sock.close()
SenderClose ==
    /\ pcSender = "close"
    /\ clientClosed' = TRUE
    /\ pcSender' = "done"
    /\ UNCHANGED << now, serverUp, shared, mainVars, current_time, data, sendOff,
                    wireSeqs, sentWrites, samplerVars, receiverVars, serverVars, c2s, s2c,
                    serverClosed, afterStop, runTimes, netLog >>

Sender ==
    \/ SenderConnect
    \/ SenderConnectError
    \/ SenderExitLoop
    \/ SenderPrepare
    \/ SenderAcquire
    \/ SenderRecord
    \/ SenderSendall
    \/ SenderSendError
    \/ SenderClose

----------------------------------------------------------------------------
(* Echo responder: handle_client in src/server.py *)

\* header = conn.recv(8) returns all 8 bytes
ServerRecvHeader ==
    /\ pcServer = "recv_header"
    /\ Len(c2s) >= HeaderSize
    /\ srvHeader' = Take(c2s, HeaderSize)
    /\ c2s' = Drop(c2s, HeaderSize)
    /\ netLog' = [netLog EXCEPT !.read = @ \o Take(c2s, HeaderSize),
                                !.parsed = Append(@, Take(c2s, HeaderSize))]
    /\ pcServer' = "recv_data"
    /\ UNCHANGED << now, serverUp, shared, mainVars, senderVars, samplerVars,
                    receiverVars, srvData, srvOff, s2c, clientClosed, serverClosed,
                    afterStop, runTimes >>

\* conn.recv(8) returns fewer than 8 bytes: struct.unpack raises, the handler
\* prints the error and closes the connection (unread bytes are discarded)
ServerShortHeader ==
    /\ pcServer = "recv_header"
    /\ c2s # <<>>
    /\ \E k \in 1..Min(HeaderSize - 1, Len(c2s)) :
          netLog' = [netLog EXCEPT !.read = @ \o Take(c2s, k)]
    /\ c2s' = <<>>
    /\ serverClosed' = TRUE
    /\ pcServer' = "done"
    /\ UNCHANGED << now, serverUp, shared, mainVars, senderVars, samplerVars,
                    receiverVars, srvHeader, srvData, srvOff, s2c, clientClosed,
                    afterStop, runTimes >>

\* a recv returns b'' (the client closed its socket): break, conn.close()
ServerPeerClosed ==
    /\ pcServer \in {"recv_header", "recv_data"}
    /\ c2s = <<>>
    /\ clientClosed
    /\ serverClosed' = TRUE
    /\ pcServer' = "done"
    /\ UNCHANGED << now, serverUp, shared, mainVars, senderVars, samplerVars,
                    receiverVars, srvHeader, srvData, srvOff, c2s, s2c, clientClosed,
                    afterStop, runTimes, netLog >>

\* data = conn.recv(packet_size): between 1 and packet_size of the queued bytes
ServerRecvData ==
    /\ pcServer = "recv_data"
    /\ c2s # <<>>
    /\ \E k \in 1..Min(PacketSize, Len(c2s)) :
          /\ srvData' = Take(c2s, k)
          /\ c2s' = Drop(c2s, k)
          /\ netLog' = [netLog EXCEPT !.read = @ \o Take(c2s, k)]
    /\ srvOff' = 0
    /\ pcServer' = "sendall"
    /\ UNCHANGED << now, serverUp, shared, mainVars, senderVars, samplerVars,
                    receiverVars, srvHeader, s2c, clientClosed, serverClosed, afterStop,
                    runTimes >>

\* a faulty variant: only the payload is written back
ServerSendall_DataOnly ==
    /\ pcServer = "sendall"
    /\ ~clientClosed
    /\ Len(s2c) < S2CCap
    /\ LET echo == srvData
           k == Min(S2CCap - Len(s2c), Len(echo) - srvOff)
       IN  /\ s2c' = s2c \o SubSeq(echo, srvOff + 1, srvOff + k)
           /\ netLog' = [netLog EXCEPT !.written = @ \o SubSeq(echo, srvOff + 1, srvOff + k)]
           /\ IF srvOff + k = Len(echo)
              THEN /\ srvOff' = 0
                   /\ srvHeader' = <<>>
                   /\ srvData' = <<>>
                   /\ pcServer' = "recv_header"
              ELSE /\ srvOff' = srvOff + k
                   /\ UNCHANGED << srvHeader, srvData, pcServer >>
    /\ UNCHANGED << now, serverUp, shared, mainVars, senderVars, samplerVars,
                    receiverVars, c2s, clientClosed, serverClosed, afterStop, runTimes >>

\* conn.sendall(header + data): blocks while the return path has no room
ServerSendall ==
    /\ pcServer = "sendall"
    /\ ~clientClosed
    /\ Len(s2c) < S2CCap
    /\ LET echo == srvHeader \o srvData
           k == Min(S2CCap - Len(s2c), Len(echo) - srvOff)
       IN  /\ s2c' = s2c \o SubSeq(echo, srvOff + 1, srvOff + k)
           /\ netLog' = [netLog EXCEPT !.written = @ \o SubSeq(echo, srvOff + 1, srvOff + k)]
           /\ IF srvOff + k = Len(echo)
              THEN /\ srvOff' = 0
                   /\ srvHeader' = <<>>
                   /\ srvData' = <<>>
                   /\ pcServer' = "recv_header"
              ELSE /\ srvOff' = srvOff + k
                   /\ UNCHANGED << srvHeader, srvData, pcServer >>
    /\ UNCHANGED << now, serverUp, shared, mainVars, senderVars, samplerVars,
                    receiverVars, c2s, clientClosed, serverClosed, afterStop, runTimes >>

\* conn.sendall raises (the client closed its socket): print, conn.close()
ServerSendError ==
    /\ pcServer = "sendall"
    /\ clientClosed
    /\ c2s' = <<>>
    /\ serverClosed' = TRUE
    /\ pcServer' = "done"
    /\ UNCHANGED << now, serverUp, shared, mainVars, senderVars, samplerVars,
                    receiverVars, srvHeader, srvData, srvOff, s2c, clientClosed,
                    afterStop, runTimes, netLog >>

Server ==
    \/ ServerRecvHeader
    \/ ServerShortHeader
    \/ ServerPeerClosed
    \/ ServerRecvData
    \/ ServerSendall
    \/ ServerSendError

----------------------------------------------------------------------------
(* Sampler: NetworkTester.measure_metrics *)

Abs(x) == IF x < 0 THEN -x ELSE x

RECURSIVE SeqSum(_)
SeqSum(s) == IF s = <<>> THEN 0 ELSE Head(s) + SeqSum(Tail(s))

\* A Python float that is a quotient is kept exact, as <<numerator, denominator>>
Quot(n, d) == << n, d >>
Zero == Quot(0, 1)
IsZero(q) == q[1] = 0
\* lo <= q <= hi, for integers lo, hi and a positive denominator
Within(q, lo, hi) == lo * q[2] <= q[1] /\ q[1] <= hi * q[2]

\* a faulty variant: the fraction is reported, not the percentage
PacketLossPct_Fraction(sent, received) ==
    IF sent > 0 THEN Quot(sent - received, sent) ELSE Zero

\* packet_loss = (sent - received) / sent if sent > 0 else 0; reported * 100
PacketLossPct(sent, received) ==
    IF sent > 0 THEN Quot((sent - received) * 100, sent) ELSE Zero

\* a faulty variant: a checksum mismatch is not counted
ScanStep_NoCorruptCheck(acc, seq_num, send_time, received) ==
    IF DictHas(received, seq_num)
    THEN LET recv_info == DictGet(received, seq_num)
         IN  [ latencies |-> Append(acc.latencies, recv_info.recv_time - send_time),
               corrupt_packets |-> acc.corrupt_packets,
               out_of_order |->
                   IF seq_num < acc.last_seq_num
                   THEN acc.out_of_order + 1 ELSE acc.out_of_order,
               last_seq_num |-> seq_num ]
    ELSE acc

\* the body of: for seq_num, send_time in self.sent_packets.items()
ScanStep(acc, seq_num, send_time, received) ==
    IF DictHas(received, seq_num)
    THEN LET recv_info == DictGet(received, seq_num)
         IN  [ latencies |-> Append(acc.latencies, recv_info.recv_time - send_time),
               corrupt_packets |->
                   IF Checksum(recv_info.data) # recv_info.checksum
                   THEN acc.corrupt_packets + 1 ELSE acc.corrupt_packets,
               out_of_order |->
                   IF seq_num < acc.last_seq_num
                   THEN acc.out_of_order + 1 ELSE acc.out_of_order,
               last_seq_num |-> seq_num ]
    ELSE acc

\* a faulty variant: the loop visits the entries last to first
RECURSIVE Scan_Descending(_, _, _, _)
Scan_Descending(sent, received, i, acc) ==
    IF i > Len(sent) THEN acc
    ELSE Scan_Descending(sent, received, i + 1,
             ScanStep(acc, sent[Len(sent) + 1 - i][1], sent[Len(sent) + 1 - i][2], received))

\* the loop over self.sent_packets.items(), in insertion order, from entry i on
RECURSIVE Scan(_, _, _, _)
Scan(sent, received, i, acc) ==
    IF i > Len(sent) THEN acc
    ELSE Scan(sent, received, i + 1, ScanStep(acc, sent[i][1], sent[i][2], received))

ScanInit == [ latencies |-> <<>>, corrupt_packets |-> 0, out_of_order |-> 0,
              last_seq_num |-> -1 ]

\* avg_latency = sum(latencies) / len(latencies) if latencies else 0
AvgLatency(latencies) ==
    IF latencies # <<>> THEN Quot(SeqSum(latencies), Len(latencies)) ELSE Zero

\* calculate_jitter: the mean absolute deviation from the mean latency,
\* sum |l - S/n| / n = sum |n*l - S| / n^2
CalculateJitter(latencies) ==
    IF Len(latencies) < 2 THEN Zero
    ELSE LET n == Len(latencies)
             total == SeqSum(latencies)
         IN  Quot(SeqSum([i \in 1..n |-> Abs(n * latencies[i] - total)]), n * n)

\* bandwidth = (received * packet_size * 8) / elapsed_time if elapsed_time > 0 else 0
Bandwidth(received, elapsed) ==
    IF elapsed > 0 THEN Quot(received * PacketSize * 8, elapsed) ELSE Zero

\* the dict appended to self.metrics
Sample(sent, received, elapsed) ==
    LET acc == Scan(sent, received, 1, ScanInit)
    IN  [ Time |-> elapsed,
          Bandwidth |-> Bandwidth(Len(received), elapsed),
          Latency |-> AvgLatency(acc.latencies),
          Jitter |-> CalculateJitter(acc.latencies),
          Loss |-> PacketLossPct(Len(sent), Len(received)),
          Corrupt |-> acc.corrupt_packets,
          OutOfOrder |-> acc.out_of_order ]

\* while not self.stop_event.is_set(): the stop flag is set, the thread ends
SamplerExit ==
    /\ pcSampler = "check"
    /\ stop_event
    /\ pcSampler' = "done"
    /\ UNCHANGED << now, serverUp, shared, mainVars, senderVars, wake, elapsed_time,
                    receiverVars, serverVars, netVars, afterStop, runTimes, netLog >>

\* a faulty variant: the Sampler begins a sleep without testing the stop flag
SamplerSleep_IgnoresStop ==
    /\ pcSampler = "check"
    /\ now + Interval <= MaxTime
    /\ wake' = now + Interval
    /\ pcSampler' = "sleep"
    /\ UNCHANGED << now, serverUp, shared, mainVars, senderVars, elapsed_time,
                    receiverVars, serverVars, netVars, afterStop, runTimes, netLog >>

\* while not self.stop_event.is_set(): time.sleep(self.measurement_interval) begins
SamplerSleep ==
    /\ pcSampler = "check"
    /\ ~stop_event
    /\ now + Interval <= MaxTime
    /\ wake' = now + Interval
    /\ pcSampler' = "sleep"
    /\ UNCHANGED << now, serverUp, shared, mainVars, senderVars, elapsed_time,
                    receiverVars, serverVars, netVars, afterStop, runTimes, netLog >>

\* a faulty variant: the sleep returns at once
SamplerWake_NoSleep ==
    /\ pcSampler = "sleep"
    /\ elapsed_time' = now - start_time
    /\ pcSampler' = "lock"
    /\ UNCHANGED << now, serverUp, shared, mainVars, senderVars, wake, receiverVars,
                    serverVars, netVars, afterStop, runTimes, netLog >>

\* the sleep ends; elapsed_time = time.time() - self.start_time
SamplerWake ==
    /\ pcSampler = "sleep"
    /\ now >= wake
    /\ elapsed_time' = now - start_time
    /\ pcSampler' = "lock"
    /\ UNCHANGED << now, serverUp, shared, mainVars, senderVars, wake, receiverVars,
                    serverVars, netVars, afterStop, runTimes, netLog >>

\* a faulty variant: the Sampler enters its critical section without waiting for the lock
SamplerAcquire_NoWait ==
    /\ pcSampler = "lock"
    /\ lock' = "sampler"
    /\ pcSampler' = "compute"
    /\ UNCHANGED << now, serverUp, stop_event, sequence_number, sent_packets,
                    received_packets, metrics, mainVars, senderVars, wake, elapsed_time,
                    receiverVars, serverVars, netVars, afterStop, runTimes, netLog >>

\* with self.lock: (enter)
SamplerAcquire ==
    /\ pcSampler = "lock"
    /\ lock = "free"
    /\ lock' = "sampler"
    /\ pcSampler' = "compute"
    /\ UNCHANGED << now, serverUp, stop_event, sequence_number, sent_packets,
                    received_packets, metrics, mainVars, senderVars, wake, elapsed_time,
                    receiverVars, serverVars, netVars, afterStop, runTimes, netLog >>

\* the snapshot is computed and appended to self.metrics; the lock is released
SamplerCompute ==
    /\ pcSampler = "compute"
    /\ metrics' = Append(metrics, Sample(sent_packets, received_packets, elapsed_time))
    /\ afterStop' = IF stop_event THEN [afterStop EXCEPT !.samples = @ + 1] ELSE afterStop
    /\ lock' = "free"
    /\ pcSampler' = "check"
    /\ UNCHANGED << now, serverUp, stop_event, sequence_number, sent_packets,
                    received_packets, mainVars, senderVars, wake, elapsed_time,
                    receiverVars, serverVars, netVars, runTimes, netLog >>

Sampler ==
    \/ SamplerExit
    \/ SamplerSleep
    \/ SamplerWake
    \/ SamplerAcquire
    \/ SamplerCompute

----------------------------------------------------------------------------
(* Coordinator: NetworkTester.run and save_metrics *)

\* sender_thread.start()
MainStartSender ==
    /\ pcMain = "Idle"
    /\ pcMain' = "start_metrics"
    /\ pcSender' = "connect"
    /\ UNCHANGED << now, serverUp, shared, csvfile, interrupted, saveCalls, current_time,
                    data, sendOff, wireSeqs, sentWrites, samplerVars, receiverVars,
                    serverVars, netVars, afterStop, runTimes, netLog >>

\* metrics_thread.start()
MainStartSampler ==
    /\ pcMain = "start_metrics"
    /\ pcMain' = "join_sender"
    /\ pcSampler' = "check"
    /\ runTimes' = [runTimes EXCEPT !.started = now]
    /\ UNCHANGED << now, serverUp, shared, csvfile, interrupted, saveCalls, senderVars,
                    wake, elapsed_time, receiverVars, serverVars, netVars, afterStop, netLog >>

\* sender_thread.join() returns; self.stop_event.set()
MainJoinSender ==
    /\ pcMain = "join_sender"
    /\ pcSender = "done"
    /\ stop_event' = TRUE
    /\ runTimes' = StopSet(runTimes, now)
    /\ pcMain' = "join_metrics"
    /\ UNCHANGED << now, serverUp, sequence_number, sent_packets, received_packets,
                    metrics, lock, csvfile, interrupted, saveCalls, senderVars,
                    samplerVars, receiverVars, serverVars, netVars, afterStop, netLog >>

\* metrics_thread.join() returns
MainJoinSampler ==
    /\ pcMain = "join_metrics"
    /\ pcSampler = "done"
    /\ pcMain' = "finally"
    /\ UNCHANGED << now, serverUp, shared, csvfile, interrupted, saveCalls, senderVars,
                    samplerVars, receiverVars, serverVars, netVars, afterStop, runTimes, netLog >>

\* a faulty variant: the interrupt handler does not set the stop flag
KeyboardInterrupt_NoStop ==
    /\ pcMain \in {"start_metrics", "join_sender", "join_metrics"}
    /\ interrupted' = TRUE
    /\ pcMain' = "finally"
    /\ UNCHANGED << now, serverUp, shared, csvfile, saveCalls, senderVars, samplerVars,
                    receiverVars, serverVars, netVars, afterStop, runTimes, netLog >>

\* except KeyboardInterrupt: print, self.stop_event.set()
KeyboardInterrupt ==
    /\ pcMain \in {"start_metrics", "join_sender", "join_metrics"}
    /\ interrupted' = TRUE
    /\ stop_event' = TRUE
    /\ runTimes' = StopSet(runTimes, now)
    /\ pcMain' = "finally"
    /\ UNCHANGED << now, serverUp, sequence_number, sent_packets, received_packets,
                    metrics, lock, csvfile, saveCalls, senderVars, samplerVars,
                    receiverVars, serverVars, netVars, afterStop, netLog >>

\* save_metrics: if self.metrics: the rows are written to the output file
SaveMetrics(file, rows) == IF rows # <<>> THEN << rows >> ELSE file

\* finally: self.save_metrics()
MainFinally ==
    /\ pcMain = "finally"
    /\ csvfile' = SaveMetrics(csvfile, metrics)
    /\ saveCalls' = saveCalls + 1
    /\ pcMain' = "Terminated"
    /\ UNCHANGED << now, serverUp, shared, interrupted, senderVars, samplerVars,
                    receiverVars, serverVars, netVars, afterStop, runTimes, netLog >>

Main ==
    \/ MainStartSender
    \/ MainStartSampler
    \/ MainJoinSender
    \/ MainJoinSampler
    \/ KeyboardInterrupt
    \/ MainFinally

----------------------------------------------------------------------------
Next ==
    \/ Tick
    \/ Main
    \/ Sender
    \/ Sampler
    \/ Server

Spec == Init /\ [][Next]_vars

\* The threads are scheduled and the clock advances: each thread that can take
\* a step eventually takes one.  A KeyboardInterrupt may never come.
FairSpec ==
    /\ Spec
    /\ WF_vars(Tick)
    /\ WF_vars(MainStartSender \/ MainStartSampler \/ MainJoinSender \/ MainJoinSampler
                  \/ MainFinally)
    /\ WF_vars(Sender)
    /\ WF_vars(Sampler)
    /\ WF_vars(Server)

----------------------------------------------------------------------------
(* Receiver: NetworkTester.receive_packets.  run() never starts it, so the *)
(* actions are not part of Next; its accepted connection is taken to       *)
(* deliver the echoed stream.                                              *)

\* the thread starts: bind, listen, accept returns a connection
ReceiverStart ==
    /\ pcReceiver = "idle"
    /\ pcReceiver' = "loop"
    /\ UNCHANGED << now, serverUp, shared, mainVars, senderVars, samplerVars, rxHeader,
                    rxData, rxTime, serverVars, netVars, afterStop, runTimes, netLog >>

\* while not self.stop_event.is_set(): the stop flag is set, the thread ends
ReceiverExit ==
    /\ pcReceiver = "loop"
    /\ stop_event
    /\ pcReceiver' = "done"
    /\ UNCHANGED << now, serverUp, shared, mainVars, senderVars, samplerVars, rxHeader,
                    rxData, rxTime, serverVars, netVars, afterStop, runTimes, netLog >>

\* while not self.stop_event.is_set(): one more iteration
ReceiverIterate ==
    /\ pcReceiver = "loop"
    /\ ~stop_event
    /\ pcReceiver' = "recv_header"
    /\ UNCHANGED << now, serverUp, shared, mainVars, senderVars, samplerVars, rxHeader,
                    rxData, rxTime, serverVars, netVars, afterStop, runTimes, netLog >>

\* header = conn.recv(8) returns all 8 bytes
ReceiverRecvHeader ==
    /\ pcReceiver = "recv_header"
    /\ Len(s2c) >= HeaderSize
    /\ rxHeader' = Take(s2c, HeaderSize)
    /\ s2c' = Drop(s2c, HeaderSize)
    /\ pcReceiver' = "recv_data"
    /\ UNCHANGED << now, serverUp, shared, mainVars, senderVars, samplerVars, rxData,
                    rxTime, serverVars, c2s, clientClosed, serverClosed, afterStop, runTimes, netLog >>

\* conn.recv(8) returns fewer than 8 bytes: struct.unpack raises, the outer
\* except prints the error and the thread ends
ReceiverShortHeader ==
    /\ pcReceiver = "recv_header"
    /\ s2c # <<>>
    /\ pcReceiver' = "done"
    /\ UNCHANGED << now, serverUp, shared, mainVars, senderVars, samplerVars, rxHeader,
                    rxData, rxTime, serverVars, netVars, afterStop, runTimes, netLog >>

\* a recv returns b'' (the peer closed the connection): break
ReceiverPeerClosed ==
    /\ pcReceiver \in {"recv_header", "recv_data"}
    /\ s2c = <<>>
    /\ serverClosed
    /\ rxHeader' = <<>>
    /\ pcReceiver' = "done"
    /\ UNCHANGED << now, serverUp, shared, mainVars, senderVars, samplerVars, rxData,
                    rxTime, serverVars, netVars, afterStop, runTimes, netLog >>

\* data = conn.recv(self.packet_size): between 1 and packet_size of the queued
\* bytes; recv_time = time.time()
ReceiverRecvData ==
    /\ pcReceiver = "recv_data"
    /\ s2c # <<>>
    /\ \E k \in 1..Min(PacketSize, Len(s2c)) :
          /\ rxData' = Take(s2c, k)
          /\ s2c' = Drop(s2c, k)
    /\ rxTime' = now
    /\ pcReceiver' = "lock"
    /\ UNCHANGED << now, serverUp, shared, mainVars, senderVars, samplerVars, rxHeader,
                    serverVars, c2s, clientClosed, serverClosed, afterStop, runTimes, netLog >>

\* with self.lock: (enter)
ReceiverAcquire ==
    /\ pcReceiver = "lock"
    /\ lock = "free"
    /\ lock' = "receiver"
    /\ pcReceiver' = "insert"
    /\ UNCHANGED << now, serverUp, stop_event, sequence_number, sent_packets,
                    received_packets, metrics, mainVars, senderVars, samplerVars,
                    rxHeader, rxData, rxTime, serverVars, netVars, afterStop, runTimes, netLog >>

\* the record stored under the sequence number the header carries
ReceivedRecord(header, payload, recv_time) ==
    [ recv_time |-> recv_time, checksum |-> HeaderChecksum(header), data |-> payload ]

\* self.received_packets[seq_num] = {...}, and the lock is released
ReceiverRecord ==
    /\ pcReceiver = "insert"
    /\ received_packets' = DictSet(received_packets, HeaderSeq(rxHeader),
                                   ReceivedRecord(rxHeader, rxData, rxTime))
    /\ lock' = "free"
    /\ rxHeader' = <<>>
    /\ rxData' = <<>>
    /\ rxTime' = 0
    /\ pcReceiver' = "loop"
    /\ UNCHANGED << now, serverUp, stop_event, sequence_number, sent_packets, metrics,
                    mainVars, senderVars, samplerVars, serverVars, netVars, afterStop, runTimes, netLog >>

Receiver ==
    \/ ReceiverStart
    \/ ReceiverExit
    \/ ReceiverIterate
    \/ ReceiverRecvHeader
    \/ ReceiverShortHeader
    \/ ReceiverPeerClosed
    \/ ReceiverRecvData
    \/ ReceiverAcquire
    \/ ReceiverRecord

----------------------------------------------------------------------------
(* The Sampler and the Receiver on given maps.  SamplerSpec starts where   *)
(* the Sender has finished after n frames, the frames of a drawn input     *)
(* have been recorded in received_packets, and the echo of the last frame  *)
(* may still be queued; it runs the Receiver, the Sampler and the          *)
(* Coordinator's drain from there.                                         *)

\* frames already recorded in a SamplerSpec initial state, at most
MaxRx == 1

\* self.sent_packets after n iterations of the Sender, each at time 0
SentAfter(n) == [i \in 1..n |-> << i - 1, 0 >>]

\* What the Receiver read for one frame: the header of a frame that carried
\* payload sent, and the bytes got that recv returned for it (the payload, a
\* short read of it, or a payload changed on the way), read at time 1
RxInputs ==
    { [ header |-> Pack32(seq) \o Pack32(Checksum(sent)), data |-> got, at |-> 1 ] :
        seq \in 0..MaxFrames, sent \in Payloads,
        got \in Payloads \cup { Take(q, PacketSize - 1) : q \in Payloads } }

\* two intact frames with different sequence numbers, in either order of arrival
RxReorderedPairs ==
    LET intact(seq) == [ header |-> Pack32(seq) \o Pack32(Checksum([i \in 1..PacketSize |-> 0])),
                         data |-> [i \in 1..PacketSize |-> 0], at |-> 1 ]
    IN  { << intact(a), intact(b) >> : a, b \in 0..(MaxFrames - 1) } \
            { << intact(a), intact(a) >> : a \in 0..(MaxFrames - 1) }

RxInputSeqs == UNION { [1..n -> RxInputs] : n \in 0..MaxRx } \cup RxReorderedPairs

\* self.received_packets after the Receiver recorded the frames of inputs
RECURSIVE ReceivedAfter(_, _)
ReceivedAfter(inputs, received) ==
    IF inputs = <<>> THEN received
    ELSE LET f == Head(inputs)
         IN  ReceivedAfter(Tail(inputs),
                 DictSet(received, HeaderSeq(f.header),
                         ReceivedRecord(f.header, f.data, f.at)))

SamplerInit ==
    /\ now = 1
    /\ serverUp = TRUE
    /\ stop_event = FALSE
    /\ \E n \in 0..MaxFrames :
          /\ sequence_number = n
          /\ sent_packets = SentAfter(n)
          /\ sentWrites = [i \in 1..n |-> i - 1]
          /\ wireSeqs = 0..(n - 1)
    /\ \E inputs \in RxInputSeqs : received_packets = ReceivedAfter(inputs, <<>>)
    /\ metrics = <<>>
    /\ lock = "free"
    /\ csvfile = <<>>
    /\ pcMain = "join_sender"
    /\ pcSender = "done"
    /\ pcSampler = "check"
    /\ pcReceiver = "idle"
    /\ pcServer = "done"
    /\ current_time = 0
    /\ data = <<>>
    /\ sendOff = 0
    /\ wake = 0
    /\ elapsed_time = 0
    /\ c2s = <<>>
    /\ \/ s2c = <<>>
       \/ /\ sequence_number > 0
          /\ \E d \in Payloads : s2c = Encode(sequence_number - 1, d)
    /\ clientClosed = TRUE
    /\ serverClosed = TRUE
    /\ srvHeader = <<>>
    /\ srvData = <<>>
    /\ srvOff = 0
    /\ rxHeader = <<>>
    /\ rxData = <<>>
    /\ rxTime = 0
    /\ interrupted = FALSE
    /\ saveCalls = 0
    /\ afterStop = [samples |-> 0, frames |-> 0]
    /\ runTimes = [started |-> 1, stopped |-> -1]
    /\ netLog = [sent |-> s2c, failed |-> FALSE, read |-> s2c,
                 parsed |-> IF s2c = <<>> THEN <<>> ELSE << Take(s2c, HeaderSize) >>,
                 written |-> s2c]

SamplerNext ==
    \/ Tick
    \/ Sampler
    \/ Receiver
    \/ MainJoinSender
    \/ MainJoinSampler
    \/ MainFinally

SamplerSpec == SamplerInit /\ [][SamplerNext]_vars

\* the three workers: the runs of Spec and the runs of SamplerSpec
WorkersNext ==
    \/ Next
    \/ Receiver

WorkersSpec == (Init \/ SamplerInit) /\ [][WorkersNext]_vars

----------------------------------------------------------------------------
(* The run with its timing.  Time passes while a thread sleeps or is inside *)
(* a blocking call (connect, sendall, recv, join); the steps in between    *)
(* - a loop test, starting a thread, the return of a join, an insert or a  *)
(* snapshot under the lock, save_metrics - take less than a clock unit, so *)
(* the clock does not advance while one of them is due.                    *)

\* a step of the Coordinator or the Sampler, or an insert under the lock, is due
Prompt ==
    ENABLED (MainStartSender \/ MainStartSampler \/ MainJoinSender \/ MainJoinSampler
             \/ MainFinally \/ Sampler \/ SenderRecord)

TimedTick ==
    /\ ~Prompt
    /\ Tick

TimedNext ==
    \/ TimedTick
    \/ Main
    \/ Sender
    \/ Sampler
    \/ Server

TimedSpec == Init /\ [][TimedNext]_vars

----------------------------------------------------------------------------
(* Claims *)

LastSample == metrics'[Len(metrics')]
SampleAppended == Len(metrics') > Len(metrics)

\* Under Spec nothing reads s2c: it holds every byte the server has echoed
AllEchoed == Len(s2c) = FrameSize * Len(sent_packets)

\* C1: in a run started by run() against the echo responder, a sample computed
\* after all sent frames have been echoed back reports packet_loss_pct = 0 and
\* corrupt_count = 0.
C1_NoLossOnceEchoed ==
    [][ (SampleAppended /\ AllEchoed) =>
            (IsZero(LastSample.Loss) /\ LastSample.Corrupt = 0) ]_vars

\* The Sender is blocked in sendall and no step of the Sender or of the server
\* can end the wait: the path to the server is full, and the handler is itself
\* blocked writing an echo that nothing reads.
SenderWedged ==
    /\ pcSender = "sendall"
    /\ ~ENABLED (SenderSendall \/ SenderSendError)
    /\ pcServer = "sendall"
    /\ ~ENABLED Server

\* C2: the Sender never stays blocked forever in a write because echoed bytes
\* are not being consumed (so it leaves its loop once the duration has elapsed
\* or the stop flag is set, and the run reaches Terminated).
C2_SenderNeverWedged == ~SenderWedged

\* once wedged, always wedged: no step of the program ends the wait
C2_WedgeIsPermanent == [][SenderWedged => SenderWedged']_vars

\* C3: when the server refuses the connection, the run (left uninterrupted)
\* ends with zero MetricSamples, whatever the interleaving of the Sender and
\* the Sampler.
C3_ZeroSamplesOnRefusal ==
    (~serverUp /\ ~interrupted /\ pcMain = "Terminated") => metrics = <<>>

\* C4: save_metrics runs only after the Sampler has exited, on the normal and on
\* the interrupt path: no MetricSample is appended once save_metrics has started.
C4_NoSampleAfterSave == [][saveCalls > 0 => metrics' = metrics]_vars

\* the Coordinator's state, from its place in run()
Phase ==
    CASE pcMain = "Idle" -> "Idle"
      [] pcMain \in {"start_metrics", "join_sender"} -> "Running"
      [] pcMain \in {"join_metrics", "finally"} -> "Draining"
      [] pcMain = "Terminated" -> "Terminated"

PhaseStep ==
    \/ Phase' = Phase
    \/ Phase = "Idle" /\ Phase' = "Running"
    \/ Phase = "Running" /\ Phase' = "Draining"
    \/ Phase = "Draining" /\ Phase' = "Terminated"

\* C5: the Coordinator moves Idle -> Running -> Draining -> Terminated and no
\* other way; however the run ends, the stop flag is set before finalization,
\* save_metrics is executed exactly once, and it persists the samples taken.
C5_Lifecycle ==
    /\ [](Phase \in {"Draining", "Terminated"} => stop_event)
    /\ [](saveCalls = IF Phase = "Terminated" THEN 1 ELSE 0)
    /\ [][PhaseStep]_vars
    /\ [][(saveCalls' > saveCalls /\ metrics # <<>>) => csvfile' = << metrics >>]_vars

\* an interrupted run has finalized with the partial results persisted
C5_Witness ==
    /\ pcMain = "Terminated"
    /\ interrupted
    /\ metrics # <<>>
    /\ csvfile = << metrics >>

C7_SequenceNumbers ==
    /\ [](\A i \in 1..Len(sent_packets) : sent_packets[i][1] = i - 1)
    /\ [](sentWrites = [i \in 1..Len(sent_packets) |-> i - 1])
    /\ [](Len(sent_packets) - sequence_number \in {0, 1})
    /\ [][sequence_number' # sequence_number =>
              /\ sequence_number' = sequence_number + 1
              /\ pcSender = "sendall" /\ pcSender' = "loop"
              /\ ~serverClosed ]_vars

\* a send failed after an earlier one succeeded: the failed frame's record
\* exists and the sequence number did not advance
C7_Witness ==
    /\ pcSender = "done"
    /\ serverClosed
    /\ sequence_number >= 1
    /\ Len(sent_packets) = sequence_number + 1

\* the frames the server has echoed whole (under Spec s2c keeps them all)
EchoedSeqs ==
    { HeaderSeq(SubSeq(s2c, (j - 1) * FrameSize + 1, (j - 1) * FrameSize + HeaderSize)) :
        j \in 1..(Len(s2c) \div FrameSize) }

\* C8: the SentRecord for sequence N is inserted before frame N is written to
\* the connection: every frame that is being written, is in flight or has been
\* echoed already has its SentRecord.
C8_RecordBeforeWrite ==
    /\ wireSeqs \subseteq DictKeys(sent_packets)
    /\ pcSender = "sendall" => DictHas(sent_packets, sequence_number)
    /\ EchoedSeqs \subseteq DictKeys(sent_packets)

\* a frame has been echoed whole while the next is partly written
C8_Witness ==
    /\ Len(s2c) >= FrameSize
    /\ pcSender = "sendall"
    /\ sendOff > 0
    /\ sequence_number >= 1

\* the threads inside a critical section of self.lock
InCritical ==
    { t \in {"sender", "sampler", "receiver"} :
        \/ t = "sender" /\ pcSender = "insert"
        \/ t = "sampler" /\ pcSampler = "compute"
        \/ t = "receiver" /\ pcReceiver = "insert" }

\* the threads inside a blocking network call (connect, accept, sendall, recv)
InNetworkCall ==
    { t \in {"sender", "sampler", "receiver"} :
        \/ t = "sender" /\ pcSender \in {"connect", "sendall"}
        \/ t = "receiver" /\ pcReceiver \in {"recv_header", "recv_data"} }

\* C9: sent_packets and received_packets are read and written only by the
\* thread that holds the single lock, at most one thread is inside a critical
\* section at a time, and the lock is not held across a blocking network call.
C9_LockDiscipline ==
    /\ [](Cardinality(InCritical) <= 1)
    /\ [](InCritical = IF lock = "free" THEN {} ELSE {lock})
    /\ [](lock \notin InNetworkCall)
    /\ [][sent_packets' # sent_packets => lock = "sender"]_vars
    /\ [][received_packets' # received_packets => lock = "receiver"]_vars
    /\ [][SampleAppended => lock = "sampler"]_vars

\* a writer waits for the lock while the Sampler computes a snapshot
C9_Witness ==
    /\ lock = "sampler"
    /\ pcSampler = "compute"
    /\ pcSender = "lock" \/ pcReceiver = "lock"

\* C10: once the stop flag is set, the Sampler appends at most one further
\* MetricSample and begins no further sleep, and the Sender begins no new
\* iteration: it records and sends at most the frame it was preparing.
C10_CooperativeStop ==
    /\ [](afterStop.samples <= 1 /\ afterStop.frames <= 1)
    /\ [][stop_event /\ pcSampler' = "sleep" => pcSampler = "sleep"]_vars
    /\ [][stop_event /\ pcSender' = "lock" => pcSender = "lock"]_vars

\* both late effects happened: a sample and a frame after the stop flag was set
C10_Witness ==
    /\ afterStop.samples = 1
    /\ afterStop.frames = 1
    /\ pcSampler = "done"

\* C11: once the stop flag is set the run state is immutable: no entry is added
\* to sent_packets or received_packets and no MetricSample is appended to
\* metrics in any later step.
C11_ImmutableAfterStop ==
    [][ stop_event =>
          /\ sent_packets' = sent_packets
          /\ received_packets' = received_packets
          /\ metrics' = metrics ]_vars

IsPrefix(a, b) == Len(a) <= Len(b) /\ a = SubSeq(b, 1, Len(a))

KthHeader(k) ==
    SubSeq(netLog.sent, (k - 1) * FrameSize + 1, (k - 1) * FrameSize + HeaderSize)

\* C14: the responder reads exactly 8 header bytes and then exactly packet_size
\* payload bytes per frame, retrying short reads: the k-th header it parses is
\* the header of the k-th frame the client sent, and its loop ends only on a
\* peer close or a transport error (both follow the client's close), never on
\* a short read.
C14_FramesAligned ==
    /\ \A k \in 1..Len(netLog.parsed) :
           /\ (k - 1) * FrameSize + HeaderSize <= Len(netLog.sent)
           /\ netLog.parsed[k] = KthHeader(k)
    /\ pcServer = "done" => clientClosed

\* two matched records were stored by the Receiver in descending order of
\* sequence number: the higher one arrived first
ArrivedOutOfOrder(sent, received) ==
    \E i, j \in 1..Len(received) :
        /\ i < j
        /\ received[i][1] > received[j][1]
        /\ DictHas(sent, received[i][1])
        /\ DictHas(sent, received[j][1])

CorruptMatched(sent, received) ==
    { k \in DictKeys(sent) \cap DictKeys(received) :
        Checksum(DictGet(received, k).data) # DictGet(received, k).checksum }

\* C16: corrupt_count is the number of sequence numbers in both maps whose
\* received payload does not hash to the checksum the frame carried; such a
\* record is counted and nothing else: sampling goes on, the record stays in
\* received_packets and is counted as received for loss and bandwidth.
C16_CorruptCount ==
    [][ SampleAppended =>
          /\ LastSample.Corrupt =
                 Cardinality(CorruptMatched(sent_packets, received_packets))
          /\ received_packets' = received_packets
          /\ pcSampler' = "check"
          /\ Len(sent_packets) > 0 =>
                 LastSample.Loss = << (Len(sent_packets) - Len(received_packets)) * 100,
                                      Len(sent_packets) >>
          /\ elapsed_time > 0 =>
                 LastSample.Bandwidth = << Len(received_packets) * PacketSize * 8,
                                           elapsed_time >> ]_vars

\* a sample counted a corrupt record that is still taken as received: no loss
C16_Witness ==
    /\ metrics # <<>>
    /\ metrics[Len(metrics)].Corrupt >= 1
    /\ IsZero(metrics[Len(metrics)].Loss)
    /\ CorruptMatched(sent_packets, received_packets) # {}

\* the Sampler thread has ended, or run() was interrupted before starting it
SamplerExited ==
    \/ pcSampler = "done"
    \/ pcSampler = "idle" /\ pcMain \in {"finally", "Terminated"}

\* C17: a failed sendall is not retried and stops the run: after it no byte is
\* written, no SentRecord is inserted and the sequence number stays (the Sender
\* only closes its socket and ends), the stop flag is eventually set, and the
\* Sampler eventually exits.
C17_FailureStopsRun ==
    /\ [][ netLog.failed =>
              /\ netLog.sent' = netLog.sent
              /\ sent_packets' = sent_packets
              /\ sequence_number' = sequence_number
              /\ pcSender' \in {"close", "done"} ]_vars
    /\ netLog.failed ~> (stop_event /\ SamplerExited)

\* after a failed send the uninterrupted run has stopped and finalized
C17_Witness ==
    /\ netLog.failed
    /\ ~interrupted
    /\ stop_event
    /\ pcSender = "done"
    /\ pcSampler = "done"
    /\ pcMain = "Terminated"

\* C18: the Receiver reads a frame fully before recording it: a ReceivedRecord
\* it stores has a payload of exactly packet_size bytes, and the sequence
\* number and checksum of a frame the Sender sent.
C18_WholeFrames ==
    [][ received_packets' # received_packets =>
          LET rec == DictGet(received_packets', HeaderSeq(rxHeader))
          IN  /\ Len(rec.data) = PacketSize
              /\ DictHas(sent_packets, HeaderSeq(rxHeader))
              /\ rec.checksum \in { Checksum(p) : p \in Payloads } ]_vars

\* C19: in a run started by run(), received_packets is empty in every reachable
\* state, so every sample taken with at least one SentRecord reports
\* packet_loss_pct = 100, avg_latency = 0, jitter = 0, bandwidth = 0 and
\* corrupt_count = 0.
C19_NothingReceived ==
    /\ [](received_packets = <<>>)
    /\ [](pcReceiver = "unstarted")
    /\ [][ (SampleAppended /\ sent_packets # <<>>) =>
              /\ LastSample.Loss[1] = 100 * LastSample.Loss[2]
              /\ IsZero(LastSample.Latency)
              /\ IsZero(LastSample.Jitter)
              /\ IsZero(LastSample.Bandwidth)
              /\ LastSample.Corrupt = 0 ]_vars

\* a sample reports total loss although a frame has been echoed back whole
C19_Witness ==
    /\ metrics # <<>>
    /\ metrics[Len(metrics)].Loss[1] > 0
    /\ Len(s2c) >= FrameSize
    /\ EchoedSeqs \subseteq DictKeys(sent_packets)

\* C20: reorder_count is 0 in every MetricSample, whatever order the echoed
\* frames arrived in and were recorded by the Receiver.
C20_NoReorderCounted == [][SampleAppended => LastSample.OutOfOrder = 0]_vars

\* a sample was taken over two matched records that arrived out of order
C20_Witness ==
    /\ metrics # <<>>
    /\ ArrivedOutOfOrder(sent_packets, received_packets)
    /\ metrics[Len(metrics)].OutOfOrder = 0
    /\ metrics[Len(metrics)].Bandwidth[1] >= 2 * PacketSize * 8

=============================================================================
